---- MODULE Spec2Model ----
\* A model of copilot.py: the configuration reader, the cache-backed two-stage
\* fetch pipeline (identity, then usage), the percentage / tier projection and
\* the two presenters, with main() as the operation of one process invocation.
\*
\* Python values are modelled as follows.
\*   str            a sequence of one-character strings (so that strip, partition,
\*                  startswith and the substring test of main are computed)
\*   str | None     [none, s]: None, or the string s
\*   JSON object    [type |-> "dict", fields |-> function from field names]
\*   JSON array     [type |-> "list", items |-> sequence]
\*   grossQuantity  an integer number of quarters (0.25): sums of quarters are
\*                  exact in binary floating point, as they are here
\*   used           an integer number of tenths (the result of round(x, 1))
\*   an exception   a result record with raised = TRUE and the message in msg
EXTENDS Integers, Sequences, FiniteSets, TLC

VARIABLES
    now,      \* the wall clock, in seconds
    ticks,    \* how many times the clock has advanced
    cache,    \* the persisted cache: key -> entry or NoEntry
    last,     \* what the last invocation of main was given and what it did
    agg,      \* the last aggregation: line items, response shape, result
    view      \* the last projection: used, quota and both presenters' output

vars == <<now, ticks, cache, last, agg, view>>

\* An optional Python string: None, or a string s.
None == [none |-> TRUE, s |-> <<>>]
Str(s) == [none |-> FALSE, s |-> s]

\* ------------------------------------------------------------------ strings

Digit == <<"0", "1", "2", "3", "4", "5", "6", "7", "8", "9">>

RECURSIVE DecimalStr(_)
\* str(n) / f"{n}" of a non-negative integer
DecimalStr(n) ==
    IF n < 10 THEN <<Digit[n + 1]>>
    ELSE DecimalStr(n \div 10) \o <<Digit[(n % 10) + 1]>>

\* sub in s, for Python strings
Contains(s, sub) ==
    \E i \in 1..(Len(s) - Len(sub) + 1) : SubSeq(s, i, i + Len(sub) - 1) = sub

StartsWith(s, p) == Len(s) >= Len(p) /\ SubSeq(s, 1, Len(p)) = p

IsSpace(c) == c \in {" ", "\t"}

RECURSIVE LStrip(_)
LStrip(s) == IF s # <<>> /\ IsSpace(Head(s)) THEN LStrip(Tail(s)) ELSE s

RECURSIVE RStrip(_)
RStrip(s) ==
    IF s # <<>> /\ IsSpace(s[Len(s)]) THEN RStrip(SubSeq(s, 1, Len(s) - 1)) ELSE s

\* str.strip()
Strip(s) == RStrip(LStrip(s))

\* the index of the first "=" of s, 0 when there is none
FirstEq(s) ==
    IF \E i \in 1..Len(s) : s[i] = "="
    THEN CHOOSE i \in 1..Len(s) : s[i] = "=" /\ \A j \in 1..(i - 1) : s[j] # "="
    ELSE 0

DigitValue(c) == CHOOSE d \in 0..9 : Digit[d + 1] = c

IsDigit(c) == \E d \in 0..9 : Digit[d + 1] = c

RECURSIVE DigitsValue(_)
DigitsValue(s) ==
    IF s = <<>> THEN 0
    ELSE DigitsValue(SubSeq(s, 1, Len(s) - 1)) * 10 + DigitValue(s[Len(s)])

\* int(value): surrounding blanks are dropped, an optional sign, then digits only;
\* anything else is a ValueError
ParseInt(value) ==
    LET s == Strip(value)
        signed == s # <<>> /\ Head(s) \in {"+", "-"}
        body == IF signed THEN Tail(s) ELSE s
    IN  IF body = <<>> \/ \E i \in 1..Len(body) : ~IsDigit(body[i])
        THEN [ok |-> FALSE, val |-> 0]
        ELSE [ok |-> TRUE,
              val |-> IF signed /\ Head(s) = "-"
                      THEN 0 - DigitsValue(body) ELSE DigitsValue(body)]

\* ------------------------------------------------------------ configuration

DEFAULT_QUOTA == 300

KEY_TOKEN == <<"G", "I", "T", "H", "U", "B", "_", "T", "O", "K", "E", "N">>
KEY_QUOTA == <<"C", "O", "P", "I", "L", "O", "T", "_", "Q", "U", "O", "T", "A">>

\* One line of the file applied to the configuration read so far.
ConfigLine(config, raw) ==
    LET line == Strip(raw)
        eq == FirstEq(line)
        key == Strip(SubSeq(line, 1, eq - 1))
        value == Strip(SubSeq(line, eq + 1, Len(line)))
    IN  IF line = <<>> \/ StartsWith(line, <<"#">>) THEN config
        ELSE IF eq = 0 THEN config
        ELSE IF key = KEY_TOKEN THEN [config EXCEPT !.GITHUB_TOKEN = Str(value)]
        ELSE IF key = KEY_QUOTA
             THEN IF ParseInt(value).ok
                  THEN [config EXCEPT !.COPILOT_QUOTA = ParseInt(value).val]
                  ELSE config
        ELSE config

RECURSIVE ConfigLines(_, _)
ConfigLines(config, lines) ==
    IF lines = <<>> THEN config
    ELSE ConfigLines(ConfigLine(config, Head(lines)), Tail(lines))

\* load_copilot_config. file.state is "absent" (path.exists() is false),
\* "unreadable" (it exists and read_text() raises: a directory, no permission,
\* undecodable bytes) or "text" with file.lines.
load_copilot_config(file) ==
    LET config == [GITHUB_TOKEN |-> None, COPILOT_QUOTA |-> DEFAULT_QUOTA]
    IN  IF file.state = "absent" THEN [raised |-> FALSE, config |-> config]
        ELSE IF file.state = "unreadable" THEN [raised |-> TRUE, config |-> config]
        ELSE [raised |-> FALSE, config |-> ConfigLines(config, file.lines)]

\* "x is None" in place of "not x"
IsNone(x) == x.none

\* "not x" for an optional string: None or the empty string
Falsy(x) == x.none \/ x.s = <<>>

\* ---------------------------------------------------------------- transport

\* What the remote side does with one request: "ok" (a 2xx response whose body
\* parses to json), "http" (urllib.error.HTTPError with a status code and a
\* body) or "url" (urllib.error.URLError with a reason: a timeout, a refused
\* connection, a proxy that fails the tunnel).
JNull == [type |-> "null", fields |-> <<>>, items |-> <<>>]
JDict(fields) == [type |-> "dict", fields |-> fields, items |-> <<>>]
JList(items) == [type |-> "list", fields |-> <<>>, items |-> items]

RespOk(json) == [kind |-> "ok", json |-> json, code |-> 200, text |-> <<>>]
RespHttp(code, body) == [kind |-> "http", json |-> JNull, code |-> code, text |-> body]
RespUrl(reason) == [kind |-> "url", json |-> JNull, code |-> 0, text |-> reason]

MSG_HTTP == <<"H", "T", "T", "P", " ">>
MSG_SEP == <<":", " ">>
MSG_NETWORK == <<"N", "e", "t", "w", "o", "r", "k", " ", "e", "r", "r", "o", "r", ":", " ">>
MSG_NO_USERNAME ==
    <<"C", "o", "u", "l", "d", " ", "n", "o", "t", " ", "d", "e", "t", "e", "r",
      "m", "i", "n", "e", " ", "G", "i", "t", "H", "u", "b", " ", "u", "s", "e",
      "r", "n", "a", "m", "e", " ", "f", "r", "o", "m", " ", "/", "u", "s", "e",
      "r", " ", "e", "n", "d", "p", "o", "i", "n", "t">>

\* The result of a call that may raise: the value, or the exception's message,
\* with the calls made on the way, in order (each request _github_get sends, by
\* its endpoint, and each entry into the usage producer), and the cache as the
\* call leaves it.
Return(val, calls, c) ==
    [raised |-> FALSE, val |-> val, msg |-> <<>>, calls |-> calls, cache |-> c]
Raise(msg, calls, c) ==
    [raised |-> TRUE, val |-> JNull, msg |-> msg, calls |-> calls, cache |-> c]

\* _github_get with its failures swallowed: an empty object instead of the
\* RuntimeError
_github_get_swallowing(endpoint, resp, c) ==
    IF resp.kind = "ok" THEN Return(resp.json, <<endpoint>>, c)
    ELSE Return(JDict(<<>>), <<endpoint>>, c)

\* _github_get: one request to endpoint, answered by resp.
_github_get(endpoint, resp, c) ==
    IF resp.kind = "ok" THEN Return(resp.json, <<endpoint>>, c)
    ELSE IF resp.kind = "http"
         THEN Raise(MSG_HTTP \o DecimalStr(resp.code) \o MSG_SEP \o resp.text,
                    <<endpoint>>, c)
    ELSE Raise(MSG_NETWORK \o resp.text, <<endpoint>>, c)

\* -------------------------------------------------------------------- cache

KEY_USER == "copilot_user"
KEY_USAGE == "copilot"
Keys == {KEY_USER, KEY_USAGE}

USER_TTL == 3600
USAGE_TTL == 60

NoEntry == [present |-> FALSE, value |-> JNull, fetched_at |-> 0, ttl |-> 0]
Entry(value, at, ttl) ==
    [present |-> TRUE, value |-> value, fetched_at |-> at, ttl |-> ttl]

\* An entry is fresh while fetched_at + ttl > now; an expired entry is
\* logically absent.
Fresh(e, t) == e.present /\ e.fetched_at + e.ttl > t

\* get_cached_or_fetch(key, producer, ttl): a fresh entry is returned without
\* the producer; otherwise the producer runs (produced is what it does from the
\* cache c), its failure propagates and leaves the entry under key as it was,
\* and its value is persisted with fetched_at = now.
get_cached_or_fetch(key, produced, ttl, c, t) ==
    IF Fresh(c[key], t) THEN Return(c[key].value, <<>>, c)
    ELSE IF produced.raised THEN produced
    ELSE Return(produced.val, produced.calls,
                [produced.cache EXCEPT ![key] = Entry(produced.val, t, ttl)])

\* ----------------------------------------------------------------- pipeline

EP_USER == "/user"
EP_USAGE == "/users/{username}/settings/billing/premium_request/usage"
Endpoints == {EP_USER, EP_USAGE}
PRODUCER == "_fetch_copilot_usage_uncached"

IsRequest(call) == call \in Endpoints
\* the requests among the calls made, in order
Requests(calls) == SelectSeq(calls, IsRequest)
\* how many of the calls are call
Count(calls, call) == Cardinality({i \in 1..Len(calls) : calls[i] = call})

\* data.get("login") if isinstance(data, dict) else None
LoginOf(data) ==
    IF data.type = "dict" /\ "login" \in DOMAIN data.fields
    THEN Str(data.fields["login"]) ELSE None

\* _get_github_username: the cached value is the /user response itself; the
\* login is looked up in it after get_cached_or_fetch has returned.
_get_github_username(userResp, c, t) ==
    LET data == get_cached_or_fetch(KEY_USER, _github_get(EP_USER, userResp, c),
                                    USER_TTL, c, t)
        username == LoginOf(data.val)
    IN  IF data.raised THEN data
        ELSE IF Falsy(username) THEN Raise(MSG_NO_USERNAME, data.calls, data.cache)
        ELSE Return(username.s, data.calls, data.cache)

\* item.get("grossQuantity", 0), in quarters
GrossQuantity(item) ==
    IF "grossQuantity" \in DOMAIN item THEN item["grossQuantity"] ELSE 0

RECURSIVE SumGross(_)
\* sum(item.get("grossQuantity", 0) for item in usage_items)
SumGross(items) ==
    IF items = <<>> THEN 0 ELSE GrossQuantity(Head(items)) + SumGross(Tail(items))

\* round(n / d) for d > 0 and n >= 0: to the nearest integer, a tie to the even one
RoundHalfEven(n, d) ==
    LET q == n \div d
        r == n % d
    IN  IF 2 * r < d THEN q
        ELSE IF 2 * r > d THEN q + 1
        ELSE IF q % 2 = 0 THEN q ELSE q + 1

\* round(x, 1) of x quarters, in tenths
RoundTenths(quarters) == RoundHalfEven(quarters * 10, 4)

\* UsageItems reading the object's field "items" instead of "usageItems"
UsageItemsOtherField(usage_data) ==
    IF usage_data.type = "list" THEN usage_data.items
    ELSE IF "items" \in DOMAIN usage_data.fields
         THEN usage_data.fields["items"] ELSE <<>>

\* the usage items of a response: the list itself, or usage_data.get("usageItems", [])
UsageItems(usage_data) ==
    IF usage_data.type = "list" THEN usage_data.items
    ELSE IF "usageItems" \in DOMAIN usage_data.fields
         THEN usage_data.fields["usageItems"] ELSE <<>>

\* _fetch_copilot_usage_uncached
_fetch_copilot_usage_uncached(userResp, usageResp, c, t) ==
    LET username == _get_github_username(userResp, c, t)
        got == _github_get(EP_USAGE, usageResp, username.cache)
        usage_data == got.val
        used == SumGross(UsageItems(usage_data))
        calls == <<PRODUCER>> \o username.calls
    IN  IF username.raised THEN Raise(username.msg, calls, username.cache)
        ELSE IF got.raised THEN Raise(got.msg, calls \o got.calls, got.cache)
        ELSE Return([used |-> RoundTenths(used), raw |-> usage_data],
                    calls \o got.calls, got.cache)

\* get_copilot_usage calling the producer directly, past the cache
get_copilot_usage_uncached(userResp, usageResp, c, t) ==
    _fetch_copilot_usage_uncached(userResp, usageResp, c, t)

\* get_copilot_usage
get_copilot_usage(userResp, usageResp, c, t) ==
    get_cached_or_fetch(KEY_USAGE,
                        _fetch_copilot_usage_uncached(userResp, usageResp, c, t),
                        USAGE_TTL, c, t)

\* --------------------------------------------------------------- projection

Min(a, b) == IF a < b THEN a ELSE b

\* str(n) of an integer
IntStr(n) == IF n < 0 THEN <<"-">> \o DecimalStr(0 - n) ELSE DecimalStr(n)

\* round(used / quota * 100) if quota > 0 else 0, for used in tenths
Percentage(used, quota) == IF quota > 0 THEN RoundHalfEven(used * 10, quota) ELSE 0

\* str(used) of the float used (tenths): always with one decimal digit
FloatStr(used) == DecimalStr(used \div 10) \o <<".">> \o DecimalStr(used % 10)

\* str(int(used)) if used == int(used) else str(used)
UsedStr(used) == IF used % 10 = 0 THEN DecimalStr(used \div 10) ELSE FloatStr(used)

\* Markup and labels whose text no operation inspects are one opaque piece each.
COPILOT_ICON == <<"[copilot-icon]">>
TIME_ICON == <<"[time-icon]">>
SpanOpen(color) == <<"<span foreground=", color, ">">>
SpanClose == <<"</span>">>
IconStyled == SpanOpen("#8b5cf6") \o COPILOT_ICON \o <<" ">> \o SpanClose
TimeIconStyled == SpanOpen("#8b5cf6") \o TIME_ICON \o SpanClose
\* format_eta(_next_month_reset_iso()): the countdown label
ResetStr == <<"[reset-eta]">>

\* format_output(template, data): each placeholder of the template is replaced
\* by the value data holds under its name; a placeholder data does not hold is
\* a TemplateError. A template is a sequence of tokens [ph, s]: a placeholder
\* named s, or the literal text s.
RECURSIVE Substitute(_, _)
Substitute(template, data) ==
    IF template = <<>> THEN <<>>
    ELSE (IF Head(template).ph THEN data[Head(template).s] ELSE <<Head(template).s>>)
         \o Substitute(Tail(template), data)

format_output(template, data) ==
    IF \E i \in 1..Len(template) : template[i].ph /\ template[i].s \notin DOMAIN data
    THEN [raised |-> TRUE, text |-> <<>>]
    ELSE [raised |-> FALSE, text |-> Substitute(template, data)]

\* print_cli: the report printed, as the values its four lines show
print_cli(used, quota) ==
    LET pct == Percentage(used, quota)
    IN  [raised |-> FALSE,
         out |-> [report |-> <<"Used :">> \o FloatStr(used) \o <<" / ">> \o IntStr(quota)
                             \o <<" (">> \o IntStr(pct) \o <<"%)">>,
                  pct |-> pct]]

\* Tier with the boundaries compared by <= instead of <
TierInclusive(pct) ==
    IF pct <= 50 THEN "copilot-low"
    ELSE IF pct <= 80 THEN "copilot-mid"
    ELSE "copilot-high"

\* The severity tier of a percentage
Tier(pct) ==
    IF pct < 50 THEN "copilot-low"
    ELSE IF pct < 80 THEN "copilot-mid"
    ELSE "copilot-high"

\* WaybarPct without the min(..., 100)
WaybarPctUnclamped(used, quota) == Percentage(used, quota)

\* pct of print_waybar: the percentage, at most 100
WaybarPct(used, quota) == Min(Percentage(used, quota), 100)

\* print_waybar: the payload printed, or the exception format_output raised
print_waybar(used, quota, format_str, tooltip_format) ==
    LET pct == WaybarPct(used, quota)
        used_str == UsedStr(used)
        data == [icon |-> IconStyled, icon_plain |-> COPILOT_ICON,
                 time_icon |-> TimeIconStyled, time_icon_plain |-> TIME_ICON,
                 used |-> FloatStr(used), used_str |-> used_str,
                 quota |-> IntStr(quota), pct |-> IntStr(pct), reset |-> ResetStr]
        text == IF ~Falsy(format_str) THEN format_output(format_str.s, data)
                ELSE [raised |-> FALSE,
                      text |-> IconStyled \o IntStr(pct) \o <<"%", " ">>
                               \o TimeIconStyled \o <<" ">> \o ResetStr]
        tooltip == IF ~Falsy(tooltip_format) THEN format_output(tooltip_format.s, data)
                   ELSE [raised |-> FALSE,
                         text |-> <<"Used:   ">> \o used_str \o <<" / ">> \o IntStr(quota)
                                  \o <<" (">> \o IntStr(pct) \o <<"%)">>]
    IN  IF text.raised \/ tooltip.raised THEN [raised |-> TRUE, out |-> <<>>]
        ELSE [raised |-> FALSE,
              out |-> [text |-> text.text, tooltip |-> tooltip.text,
                       class |-> Tier(pct), percentage |-> pct]]

\* --------------------------------------------------------------------- main

S_401 == <<"4", "0", "1">>
S_403 == <<"4", "0", "3">>
NO_TOKEN == <<"N", "o", " ", "T", "o", "k", "e", "n">>
AUTH_ERR == <<"A", "u", "t", "h", " ", "E", "r", "r">>
NET_ERR == <<"N", "e", "t", " ", "E", "r", "r">>
ERR_NO_TOKEN == <<"[!] Error: No GITHUB_TOKEN in ">>
ERR_FETCHING == <<"Error fetching Copilot usage:", "\n">>
ERR_CRITICAL == <<"[!] Critical Error: ">>
TRACEBACK == <<"Traceback (most recent call last):">>

\* main's local used: unset, or the value get_copilot_usage returned
Unset == [set |-> FALSE, v |-> 0]
Set(v) == [set |-> TRUE, v |-> v]

\* What one process did: its exit status, what it wrote to stdout (a sequence
\* of documents) and to stderr, the calls it made, how many times it entered
\* get_copilot_usage, its local used, and the cache as it left it.
Outcome(exit, stdout, stderr, calls, fetches, used, c) ==
    [exit |-> exit, stdout |-> stdout, stderr |-> stderr, calls |-> calls,
     fetches |-> fetches, used |-> used, cache |-> c]

\* An exception no handler of main catches: the interpreter prints the
\* traceback on stderr and the process ends with status 1.
Uncaught(calls, fetches, used, c) ==
    Outcome(1, <<>>, <<TRACEBACK>>, calls, fetches, used, c)

ErrorPayload(short, tooltip) ==
    [text |-> SpanOpen("#ff5555") \o COPILOT_ICON \o <<" ">> \o short \o SpanClose,
     tooltip |-> tooltip, class |-> "critical"]

\* main, given the parsed arguments (args.waybar, args.format,
\* args.tooltip_format, and args.config as the state of the file it names),
\* what the remote side answers to each request, the cache and the clock.
main(args, userResp, usageResp, c, t) ==
    LET loaded == load_copilot_config(args.config)
        token == loaded.config.GITHUB_TOKEN
        quota == loaded.config.COPILOT_QUOTA
        usage == get_copilot_usage(userResp, usageResp, c, t)
        used == usage.val.used
        short_err == IF Contains(usage.msg, S_401) \/ Contains(usage.msg, S_403)
                     THEN AUTH_ERR ELSE NET_ERR
        printed == IF args.waybar
                   THEN print_waybar(used, quota, args.format, args.tooltip_format)
                   ELSE print_cli(used, quota)
    IN  IF loaded.raised THEN Uncaught(<<>>, 0, Unset, c)
        ELSE IF Falsy(token)
             THEN IF args.waybar
                  THEN Outcome(0, <<ErrorPayload(NO_TOKEN, <<"No GITHUB_TOKEN found">>)>>,
                               <<>>, <<>>, 0, Unset, c)
                  ELSE Outcome(1, <<>>, <<ERR_NO_TOKEN>>, <<>>, 0, Unset, c)
        ELSE IF usage.raised
             THEN IF args.waybar
                  THEN Outcome(0, <<ErrorPayload(short_err, ERR_FETCHING \o usage.msg)>>,
                               <<>>, usage.calls, 1, Unset, usage.cache)
                  ELSE Outcome(1, <<>>, <<ERR_CRITICAL \o usage.msg>>,
                               usage.calls, 1, Unset, usage.cache)
        ELSE IF printed.raised THEN Uncaught(usage.calls, 1, Set(used), usage.cache)
        ELSE Outcome(0, <<printed.out>>, <<>>, usage.calls, 1, Set(used), usage.cache)

\* ------------------------------------------------------------------- inputs

MaxTicks == 2
MaxItems == 3
MaxUsed == 140

LINE_TOKEN == <<"G", "I", "T", "H", "U", "B", "_", "T", "O", "K", "E", "N", "=", "g", "h", "p">>
LINE_TOKEN_SPACED == <<" ", "G", "I", "T", "H", "U", "B", "_", "T", "O", "K", "E", "N", " ", "=", " ", "g", "h", "p", " ">>
LINE_TOKEN_EMPTY == <<"G", "I", "T", "H", "U", "B", "_", "T", "O", "K", "E", "N", "=">>
LINE_TOKEN_COMMENTED == <<"#", " ", "G", "I", "T", "H", "U", "B", "_", "T", "O", "K", "E", "N", "=", "g", "h", "p">>
LINE_QUOTA_100 == <<"C", "O", "P", "I", "L", "O", "T", "_", "Q", "U", "O", "T", "A", "=", "1", "0", "0">>
LINE_QUOTA_BAD == <<"C", "O", "P", "I", "L", "O", "T", "_", "Q", "U", "O", "T", "A", "=", "a", "b", "c">>
LINE_OTHER == <<"E", "D", "I", "T", "O", "R", "=", "v", "i">>

File(state, lines) == [state |-> state, lines |-> lines]
FileAbsent == File("absent", <<>>)
FileUnreadable == File("unreadable", <<>>)
FileToken == File("text", <<LINE_TOKEN>>)

\* The configuration files of the runs of main: absent, unreadable, and texts
\* with or without a GITHUB_TOKEN line, with an empty token, with a quota.
ConfigFiles ==
    {FileAbsent, FileUnreadable, FileToken,
     File("text", <<>>),
     File("text", <<LINE_TOKEN_COMMENTED, LINE_OTHER>>),
     File("text", <<LINE_TOKEN_EMPTY>>),
     File("text", <<LINE_TOKEN, LINE_TOKEN_EMPTY>>),
     File("text", <<LINE_TOKEN_SPACED, LINE_QUOTA_100>>),
     File("text", <<LINE_QUOTA_BAD, LINE_TOKEN>>)}

Lit(s) == [ph |-> FALSE, s |-> s]
Ph(s) == [ph |-> TRUE, s |-> s]
\* --format '{icon_plain} {pct}%', and a template naming a placeholder the data
\* does not hold
TemplateGood == <<Ph("icon_plain"), Lit(" "), Ph("pct"), Lit("%")>>
TemplateUnknown == <<Ph("used_str"), Lit("/"), Ph("limit")>>
Templates == {None, Str(<<>>), Str(TemplateGood), Str(TemplateUnknown)}

Args(waybar, format, tooltip_format, config) ==
    [waybar |-> waybar, format |-> format, tooltip_format |-> tooltip_format,
     config |-> config]

LOGIN == <<"o", "c", "t", "o">>
UserOk == RespOk(JDict([login |-> LOGIN]))
UserNoLogin == RespOk(JDict(<<>>))
UserEmptyLogin == RespOk(JDict([login |-> <<>>]))
UserNotObject == RespOk(JList(<<>>))

BODY_BAD_CREDENTIALS == <<"B", "a", "d", " ", "c", "r", "e", "d", "e", "n", "t", "i", "a", "l", "s">>
BODY_NOT_FOUND == <<"N", "o", "t", " ", "F", "o", "u", "n", "d">>
BODY_UPSTREAM_401 == <<"u", "p", "s", "t", "r", "e", "a", "m", " ", "4", "0", "1">>
REASON_TIMED_OUT == <<"t", "i", "m", "e", "d", " ", "o", "u", "t">>
REASON_TUNNEL_403 == <<"T", "u", "n", "n", "e", "l", " ", "c", "o", "n", "n", "e", "c", "t", "i", "o", "n", " ", "f", "a", "i", "l", "e", "d", ":", " ", "4", "0", "3", " ", "F", "o", "r", "b", "i", "d", "d", "e", "n">>

\* The failures of one request: 401 and 403 responses, responses with another
\* status (one whose body quotes a 401), a timeout, and a proxy refusing the
\* tunnel with a 403.
Failures ==
    {RespHttp(401, BODY_BAD_CREDENTIALS), RespHttp(403, <<>>),
     RespHttp(404, BODY_NOT_FOUND), RespHttp(500, BODY_UPSTREAM_401),
     RespUrl(REASON_TIMED_OUT), RespUrl(REASON_TUNNEL_403)}

Item(q) == [grossQuantity |-> q]
ItemNoQuantity == [sku |-> "copilot_premium_request"]
\* 1.0, 2.5 and 0.0 premium requests; 400 of them
UsageA == RespOk(JList(<<Item(4), Item(10), Item(0)>>))
UsageB == RespOk(JDict([usageItems |-> <<Item(1600)>>]))

\* ------------------------------------------------------------ specification

NoRun ==
    [ran |-> FALSE, args |-> Args(FALSE, None, None, FileAbsent), userResp |-> UserOk,
     usageResp |-> UsageA, before |-> [k \in Keys |-> NoEntry], at |-> 0,
     out |-> Outcome(0, <<>>, <<>>, <<>>, 0, Unset, [k \in Keys |-> NoEntry])]
NoResult == Return(JNull, <<>>, [k \in Keys |-> NoEntry])
NoAgg == [ran |-> FALSE, items |-> <<>>, shape |-> "list", result |-> NoResult]
NoView == [ran |-> FALSE, used |-> 0, quota |-> DEFAULT_QUOTA, cli |-> <<>>, waybar |-> <<>>]

Init ==
    /\ now = 0
    /\ ticks = 0
    /\ cache = [k \in Keys |-> NoEntry]
    /\ last = NoRun
    /\ agg = NoAgg
    /\ view = NoView

\* Time passes between two invocations.
TickSteps == {1, USAGE_TTL - 1, USER_TTL}

Tick ==
    /\ ticks < MaxTicks
    /\ \E d \in TickSteps : now' = now + d
    /\ ticks' = ticks + 1
    /\ UNCHANGED <<cache, last, agg, view>>

\* One process: main() from its start to its exit.
Invoke(waybar, format, tooltip_format, file, userResp, usageResp) ==
    LET args == Args(waybar, format, tooltip_format, file)
        out == main(args, userResp, usageResp, cache, now)
    IN  /\ cache' = out.cache
        /\ last' = [ran |-> TRUE, args |-> args, userResp |-> userResp,
                    usageResp |-> usageResp, before |-> cache, at |-> now,
                    out |-> out]
        /\ UNCHANGED <<now, ticks, agg, view>>

\* What the remote side answers to the two requests of a refresh.
RunUserResponses ==
    {UserOk, UserNoLogin, RespHttp(401, BODY_BAD_CREDENTIALS)}

RunUsageResponses ==
    {UsageA, UsageB, RespUrl(REASON_TIMED_OUT)}

\* Status-bar refresh ticks: the same configuration each time, the remote side
\* answering or failing.
Run ==
    \/ \E waybar \in BOOLEAN :
        Invoke(waybar, None, None, FileAbsent, UserOk, UsageA)
    \/ \E waybar \in BOOLEAN,
          userResp \in RunUserResponses,
          usageResp \in RunUsageResponses :
        Invoke(waybar, None, None, FileToken, userResp, usageResp)

Next == Tick \/ Run

Spec == Init /\ [][Next]_vars

MainUsageAnswers ==
    {UsageA, UsageB}

MainUserResponses ==
    {UserOk, UserNoLogin, UserEmptyLogin, UserNotObject} \cup Failures

MainUsageResponses ==
    {UsageA} \cup Failures

TemplateFiles ==
    {FileToken, File("text", <<LINE_TOKEN_SPACED, LINE_QUOTA_100>>)}

\* The runs of main behind the claims on its outcomes, one dimension at a time:
\* every configuration file with a remote side that answers; every pair of
\* answers and failures of the two requests; every pair of templates.
RunMain ==
    \/ \E waybar \in BOOLEAN, file \in ConfigFiles, usageResp \in MainUsageAnswers :
        Invoke(waybar, None, None, file, UserOk, usageResp)
    \/ \E waybar \in BOOLEAN,
          userResp \in MainUserResponses,
          usageResp \in MainUsageResponses :
        Invoke(waybar, None, None, FileToken, userResp, usageResp)
    \/ \E waybar \in BOOLEAN, format \in Templates, tooltip_format \in Templates,
          file \in TemplateFiles :
        Invoke(waybar, format, tooltip_format, file, UserOk, UsageB)

NextMain == RunMain

SpecMain == Init /\ [][NextMain]_vars

\* ---- the aggregation alone

\* grossQuantity values, in quarters: 0.0, 0.25, 0.75, 1.0, 2.5
Quantities == {0, 1, 3, 4, 10}
Items == {Item(q) : q \in Quantities} \cup {ItemNoQuantity}
ItemSeqs == UNION {[1..n -> Items] : n \in 0..MaxItems}

\* The response that holds items in the given shape: the bare sequence, an
\* object with the sequence under usageItems, an object without usageItems.
Wrap(shape, items) ==
    IF shape = "list" THEN JList(items)
    ELSE IF shape = "object" THEN JDict([usageItems |-> items])
    ELSE JDict([items |-> items])

Shapes == {"list", "object", "other"}

InitUsage ==
    /\ now = 0
    /\ ticks = 0
    /\ cache = [k \in Keys |-> NoEntry]
    /\ last = NoRun
    /\ agg \in {[NoAgg EXCEPT !.items = items, !.shape = shape] :
                    items \in ItemSeqs, shape \in Shapes}
    /\ view = NoView

Aggregate ==
    /\ ~agg.ran
    /\ agg' = [agg EXCEPT !.ran = TRUE,
                          !.result = _fetch_copilot_usage_uncached(
                                         UserOk, RespOk(Wrap(agg.shape, agg.items)),
                                         cache, now)]
    /\ UNCHANGED <<now, ticks, cache, last, view>>

NextUsage == Aggregate

SpecUsage == InitUsage /\ [][NextUsage]_vars

\* ---- the projection and the presenters alone

\* used, in tenths: every value up to MaxUsed, and the values that put the
\* default quota at 49, 50, 79, 80 and 133 percent
UsedValues == (0..MaxUsed) \cup {1470, 1500, 2370, 2400, 4000}
QuotaValues == {DEFAULT_QUOTA, 100, 10, 7, 3, 1, 0, -5}

InitView ==
    /\ now = 0
    /\ ticks = 0
    /\ cache = [k \in Keys |-> NoEntry]
    /\ last = NoRun
    /\ agg = NoAgg
    /\ view \in {[NoView EXCEPT !.used = used, !.quota = quota] :
                     used \in UsedValues, quota \in QuotaValues}

Project ==
    /\ ~view.ran
    /\ view' = [view EXCEPT !.ran = TRUE,
                            !.cli = print_cli(view.used, view.quota).out,
                            !.waybar = print_waybar(view.used, view.quota, None, None).out]
    /\ UNCHANGED <<now, ticks, cache, last, agg>>

NextView == Project

SpecView == InitView /\ [][NextView]_vars

\* ------------------------------------------------------------------- claims

Abs(x) == IF x < 0 THEN 0 - x ELSE x

\* C4: for quota > 0 (and used >= 0) the plaintext report shows
\* round(used / quota * 100), the integer nearest to it (the even one of two
\* equally near), unclamped, and the
\* structured payload shows the smaller of that and 100, so an integer in
\* 0..100 that equals the plaintext percentage whenever that is at most 100
\* (used = 400, quota = 300: 133 and 100); for quota <= 0 both show 0.
C4_Percentage ==
    view.ran =>
        LET cli == view.cli.pct
            structured == view.waybar.percentage
        IN  /\ view.quota > 0 =>
                /\ 2 * Abs(cli * view.quota - view.used * 10) <= view.quota
                /\ 2 * Abs(cli * view.quota - view.used * 10) = view.quota
                       => cli % 2 = 0
                /\ structured = (IF cli <= 100 THEN cli ELSE 100)
                /\ structured \in 0..100
            /\ view.quota <= 0 => cli = 0 /\ structured = 0
            /\ (view.used = 4000 /\ view.quota = 300) => cli = 133 /\ structured = 100

\* used = 400 against the default quota: over quota
C4_Witness ==
    /\ view.ran
    /\ view.used = 4000 /\ view.quota = DEFAULT_QUOTA
    /\ view.cli.pct = 133
    /\ view.waybar.percentage = 100

\* C5: the class of a structured success payload is decided by its percentage:
\* copilot-low iff percentage < 50, copilot-mid iff 50 <= percentage < 80,
\* copilot-high iff percentage >= 80, exactly one of the three.
C5_Tier ==
    view.ran =>
        LET pct == view.waybar.percentage
            class == view.waybar.class
        IN  /\ class \in {"copilot-low", "copilot-mid", "copilot-high"}
            /\ class = "copilot-low" <=> pct < 50
            /\ class = "copilot-mid" <=> (50 <= pct /\ pct < 80)
            /\ class = "copilot-high" <=> pct >= 80

\* a payload at the closed lower boundary of mid
C5_Witness ==
    /\ view.ran
    /\ view.waybar.percentage = 50
    /\ view.waybar.class = "copilot-mid"

\* the quarters a sequence of line items holds, an item without grossQuantity
\* counting 0
ExpectedQuarters(items) ==
    LET sum[n \in 0..Len(items)] ==
            IF n = 0 THEN 0
            ELSE sum[n - 1] + (IF DOMAIN items[n] = {"grossQuantity"}
                               THEN items[n].grossQuantity ELSE 0)
    IN  sum[Len(items)]

\* C7: the aggregation computes the same used for the bare sequence of line
\* items and for an object holding it under usageItems: the sum of the items'
\* grossQuantity, a missing one counting 0, rounded to one decimal (the tenth
\* nearest the sum; [1.0, 2.5, 0.0] gives 3.5); an object without usageItems
\* gives 0.
C7_Aggregation ==
    agg.ran =>
        LET used == agg.result.val.used
            quarters == ExpectedQuarters(agg.items)
        IN  /\ ~agg.result.raised
            /\ agg.shape \in {"list", "object"} =>
                /\ 2 * Abs(4 * used - 10 * quarters) <= 4
                /\ (4 * used = 10 * quarters + 2 \/ 4 * used = 10 * quarters - 2)
                       => used % 2 = 0
                /\ agg.items = <<Item(4), Item(10), Item(0)>> => used = 35
            /\ agg.shape = "other" => used = 0

\* the three items 1.0, 2.5, 0.0 under usageItems
C7_Witness ==
    /\ agg.ran
    /\ agg.shape = "object"
    /\ agg.items = <<Item(4), Item(10), Item(0)>>
    /\ agg.result.val.used = 35

\* The configuration files that yield no credential: no file, no GITHUB_TOKEN
\* line (none at all, or only a commented one), an empty GITHUB_TOKEN value
\* (alone, or overriding an earlier line).
NoCredentialFiles ==
    {FileAbsent,
     File("text", <<>>),
     File("text", <<LINE_TOKEN_COMMENTED, LINE_OTHER>>),
     File("text", <<LINE_TOKEN_EMPTY>>),
     File("text", <<LINE_TOKEN, LINE_TOKEN_EMPTY>>)}

\* The files that yield the credential "ghp".
CredentialFiles ==
    {FileToken,
     File("text", <<LINE_TOKEN_SPACED, LINE_QUOTA_100>>),
     File("text", <<LINE_QUOTA_BAD, LINE_TOKEN>>)}

\* the one structured payload of the last run shows the label
Shows(label) ==
    /\ Len(last.out.stdout) = 1
    /\ "text" \in DOMAIN last.out.stdout[1]
    /\ Contains(last.out.stdout[1].text, label)

\* C3: with no credential the run ends in the configuration-error outcome with
\* no request sent and without entering get_copilot_usage (plaintext: the
\* No GITHUB_TOKEN message on stderr and exit 1; structured: the No Token
\* payload, not Auth Err or Net Err), and a run that did enter the pipeline
\* never ends in that outcome.
C3_NoCredential ==
    last.ran =>
        /\ last.args.config \in NoCredentialFiles =>
            /\ last.out.calls = <<>>
            /\ last.out.fetches = 0
            /\ last.out.cache = last.before
            /\ last.args.waybar =>
                /\ last.out.exit = 0
                /\ last.out.stderr = <<>>
                /\ Shows(NO_TOKEN) /\ ~Shows(AUTH_ERR) /\ ~Shows(NET_ERR)
                /\ last.out.stdout[1].class = "critical"
            /\ ~last.args.waybar =>
                /\ last.out.exit = 1
                /\ last.out.stdout = <<>>
                /\ last.out.stderr = <<ERR_NO_TOKEN>>
        /\ last.args.config \in CredentialFiles =>
            /\ last.out.fetches = 1
            /\ ~Shows(NO_TOKEN)
            /\ last.out.stderr # <<ERR_NO_TOKEN>>

\* a structured run on a file whose GITHUB_TOKEN value is empty
C3_Witness ==
    /\ last.ran
    /\ last.args.waybar
    /\ last.args.config = File("text", <<LINE_TOKEN_EMPTY>>)
    /\ Shows(NO_TOKEN)
    /\ last.out.calls = <<>>

\* C2: a structured run always ends with exit code 0 after one structured
\* payload on stdout.
C2_StructuredExitZero ==
    (last.ran /\ last.args.waybar) =>
        /\ last.out.exit = 0
        /\ Len(last.out.stdout) = 1

\* the request of the last run that failed, if one did: the last request sent,
\* when the remote side answered it with a failure
FailedRequest ==
    LET sent == Requests(last.out.calls)
        resp == IF sent[Len(sent)] = EP_USER THEN last.userResp ELSE last.usageResp
    IN  IF sent # <<>> /\ resp.kind # "ok" THEN {resp} ELSE {}

\* C6: in structured mode a failed request is classified by its outcome: an
\* HTTP 401 or 403 response gives the Auth Err payload; a timeout, a connection
\* failure, or a response with another status gives the Net Err payload.
C6_Classification ==
    (last.ran /\ last.args.waybar /\ last.args.config \in CredentialFiles) =>
        \A resp \in FailedRequest :
            IF resp.kind = "http" /\ resp.code \in {401, 403}
            THEN Shows(AUTH_ERR) /\ ~Shows(NET_ERR)
            ELSE Shows(NET_ERR) /\ ~Shows(AUTH_ERR)

\* ---- claims on the cache, under Spec

\* the last run had a credential
HadToken == last.ran /\ last.args.config \in CredentialFiles

\* C1: a run that starts while the usage entry is fresh does not enter the
\* usage producer, sends no request, leaves the cache as it is and gets the
\* value of the entry, which is the value the run that wrote the entry got; a
\* run that starts with the entry absent or expired enters the producer once.
C1_CacheIdempotence ==
    HadToken =>
        LET old == last.before[KEY_USAGE]
            new == last.out.cache[KEY_USAGE]
        IN  /\ Fresh(old, last.at) =>
                /\ Count(last.out.calls, PRODUCER) = 0
                /\ Requests(last.out.calls) = <<>>
                /\ last.out.cache = last.before
                /\ last.out.used = Set(old.value.used)
            /\ ~Fresh(old, last.at) =>
                /\ Count(last.out.calls, PRODUCER) = 1
                /\ last.out.used.set =>
                    /\ new = Entry(new.value, last.at, USAGE_TTL)
                    /\ new.value.used = last.out.used.v
                    /\ new.value.raw = last.usageResp.json

\* a second run, later than the run that wrote the entry and within its TTL
C1_Witness ==
    /\ HadToken
    /\ Fresh(last.before[KEY_USAGE], last.at)
    /\ last.at > last.before[KEY_USAGE].fetched_at
    /\ last.out.used = Set(last.before[KEY_USAGE].value.used)

\* the identity cannot be resolved in the last run: from the fresh entry, or
\* else from the answer to the identity request
IdentityFails ==
    LET e == last.before[KEY_USER]
    IN  IF Fresh(e, last.at) THEN Falsy(LoginOf(e.value))
        ELSE last.userResp.kind # "ok" \/ Falsy(LoginOf(last.userResp.json))

\* the last run ended as a failure of the fetch: no success payload, no report
FetchFailed ==
    /\ ~last.out.used.set
    /\ IF last.args.waybar
       THEN last.out.exit = 0 /\ (Shows(AUTH_ERR) \/ Shows(NET_ERR))
       ELSE /\ last.out.exit = 1 /\ last.out.stdout = <<>>
            /\ Len(last.out.stderr) = 1
            /\ StartsWith(last.out.stderr[1], ERR_CRITICAL)

\* C8: a run that finds an expired entry under a key and whose producer for
\* that key fails leaves the entry under that key as it was and ends as a
\* failure, not with the stale value. The producer of the usage key fails when
\* the identity cannot be resolved or the usage request fails; the producer of
\* the identity key fails when the identity request fails.
C8_FailedRefresh ==
    HadToken =>
        LET usage == last.before[KEY_USAGE]
            user == last.before[KEY_USER]
        IN  /\ (usage.present /\ ~Fresh(usage, last.at)
                    /\ (IdentityFails \/ last.usageResp.kind # "ok")) =>
                /\ last.out.cache[KEY_USAGE] = usage
                /\ FetchFailed
            /\ (user.present /\ ~Fresh(user, last.at) /\ ~Fresh(usage, last.at)
                    /\ last.userResp.kind # "ok") =>
                /\ last.out.cache[KEY_USER] = user
                /\ FetchFailed

\* an expired usage entry and a usage request that fails
C8_Witness ==
    /\ HadToken
    /\ last.before[KEY_USAGE].present
    /\ ~Fresh(last.before[KEY_USAGE], last.at)
    /\ ~IdentityFails
    /\ last.usageResp.kind # "ok"
    /\ last.out.cache[KEY_USAGE] = last.before[KEY_USAGE]
    /\ FetchFailed

\* C9: a run sends at most one identity request and at most one usage request:
\* none when the usage entry is fresh; only the usage request when the usage
\* entry is absent or expired and the identity entry is fresh; otherwise the
\* identity request first, and the usage request after it only when the
\* identity was resolved.
C9_Requests ==
    last.ran =>
        LET sent == Requests(last.out.calls)
            resolved == last.userResp.kind = "ok" /\ ~Falsy(LoginOf(last.userResp.json))
        IN  /\ Count(sent, EP_USER) <= 1 /\ Count(sent, EP_USAGE) <= 1
            /\ HadToken =>
                IF Fresh(last.before[KEY_USAGE], last.at) THEN sent = <<>>
                ELSE IF Fresh(last.before[KEY_USER], last.at) THEN sent = <<EP_USAGE>>
                ELSE IF resolved THEN sent = <<EP_USER, EP_USAGE>>
                ELSE sent = <<EP_USER>>

\* C10: a fresh entry under the identity key always resolves: it is an object
\* with a non-empty login.
C10_IdentityResolved ==
    Fresh(cache[KEY_USER], now) => ~Falsy(LoginOf(cache[KEY_USER].value))

====
